---- MODULE Spec2Model ----
(***************************************************************************)
(* Reputation update engine and emotional trend analyzer of the Polkadot   *)
(* Creative Identity client (TECHNICAL_ARCHITECTURE.md, soulbound.rs and   *)
(* emotional_bridge.rs listings).                                          *)
(*                                                                         *)
(* Numbers.  The program computes in f32.  The model computes in exact     *)
(* fixed point: a category score s is the integer s * ONE, a decay factor  *)
(* d is the integer d * DSCALE, overall_score o is the integer o * OONE.   *)
(* Timestamps are counted in units of DECAY_HALF_LIFE, so the decay over   *)
(* an elapsed time e is 2^(-e) and ONE is chosen so that every division of *)
(* the model is exact.  Valence and arousal are counted in hundredths.     *)
(* Floating point rounding is not modelled.                                *)
(***************************************************************************)
EXTENDS Integers, FiniteSets, Sequences, TLC

\* Largest timestamp the clock returns, in half-lives.
MaxTime == 2
\* Number of update_reputation calls in one behaviour.
MaxCalls == 2

\* DECAY_HALF_LIFE, the unit of the model's timestamps.
DECAY_HALF_LIFE == 1

Pow2(n) == 2 ^ n

\* Fixed-point one of a decay factor.
DSCALE == Pow2(MaxTime)
\* Fixed-point one of a category score: 1/2 and MaxCalls blends of at most
\* MaxTime half-lives each are exact.
ONE == 2 * Pow2(MaxCalls * MaxTime)
\* The neutral prior 0.5 of a never-seen category (unwrap_or(&0.5)).
HALF == ONE \div 2
\* Fixed-point one of overall_score: weights are hundredths, multipliers tenths.
OONE == ONE * 100 * 10

VerificationLevels == {"Basic", "Verified", "Enhanced", "Premium"}

CanonicalCategories ==
    {"emotional_consistency", "creative_output_quality", "community_engagement",
     "cross_chain_activity", "temporal_stability"}

\* Category keys of the model: the five canonical ones and one other key.
Categories == CanonicalCategories \cup {"custom"}

clamp(x, lo, hi) == IF x < lo THEN lo ELSE IF x > hi THEN hi ELSE x

Abs(x) == IF x < 0 THEN -x ELSE x

\* HashMap::insert: insert if absent, overwrite if present.
insert(m, k, v) == [x \in (DOMAIN m) \cup {k} |-> IF x = k THEN v ELSE m[x]]

\* HashMap::get(k).unwrap_or(&d)
get_or(m, k, d) == IF k \in DOMAIN m THEN m[k] ELSE d

EmptyMap == [x \in {} |-> 0]

\* time_decay = exp(-ln 2 * (current_time - last_updated) / half_life), scaled by
\* DSCALE; the formula is applied as it stands to a negative elapsed time.
calculate_exponential_decay(last_updated, current_time, half_life) ==
    LET elapsed == (current_time - last_updated) \div half_life
    IN  IF elapsed >= 0 THEN Pow2(MaxTime - elapsed) ELSE Pow2(MaxTime) * Pow2(-elapsed)

\* Weight with the weights of community_engagement and cross_chain_activity
\* exchanged.
Weight_swapped(c) ==
    CASE c = "emotional_consistency"   -> 25
      [] c = "creative_output_quality" -> 25
      [] c = "community_engagement"    -> 15
      [] c = "cross_chain_activity"    -> 20
      [] c = "temporal_stability"      -> 15
      [] OTHER                         -> 0

\* Weight of a category in base_score, in hundredths.
Weight(c) ==
    CASE c = "emotional_consistency"   -> 25
      [] c = "creative_output_quality" -> 25
      [] c = "community_engagement"    -> 20
      [] c = "cross_chain_activity"    -> 15
      [] c = "temporal_stability"      -> 15
      [] OTHER                         -> 0

\* base_score over the category map, in hundredths of ONE; a canonical key
\* missing from the map contributes 0.
calculate_weighted_score(scores) ==
    get_or(scores, "emotional_consistency", 0) * Weight("emotional_consistency")
  + get_or(scores, "creative_output_quality", 0) * Weight("creative_output_quality")
  + get_or(scores, "community_engagement", 0) * Weight("community_engagement")
  + get_or(scores, "cross_chain_activity", 0) * Weight("cross_chain_activity")
  + get_or(scores, "temporal_stability", 0) * Weight("temporal_stability")

\* match verification_level { ... }, in tenths.
verification_multiplier(level) ==
    CASE level = "Basic"    -> 8
      [] level = "Verified" -> 10
      [] level = "Enhanced" -> 12
      [] level = "Premium"  -> 15

\* updated_score adding new_score whole instead of new_score * (1 - time_decay).
updated_score_unweighted(current, new_score, time_decay) ==
    LET decayed_current == (current * time_decay) \div DSCALE
    IN  clamp(decayed_current + new_score, 0, ONE)

\* updated_score giving current and new_score one half each, whatever the decay.
updated_score_averaged(current, new_score, time_decay) ==
    clamp((current + new_score) \div 2, 0, ONE)

\* updated_score with the weights exchanged: current * (1 - time_decay) and
\* new_score * time_decay.
updated_score_weights_exchanged(current, new_score, time_decay) ==
    clamp((current * (DSCALE - time_decay)) \div DSCALE
          + (new_score * time_decay) \div DSCALE, 0, ONE)

\* One iteration of the category loop: the blended and clamped score.
updated_score(current, new_score, time_decay) ==
    LET decayed_current == (current * time_decay) \div DSCALE
    IN  clamp(decayed_current + (new_score * (DSCALE - time_decay)) \div DSCALE, 0, ONE)

\* for (category, new_score) in &new_activity.category_scores { ... }
RECURSIVE category_loop(_, _, _, _)
category_loop(scores, activity, todo, time_decay) ==
    IF todo = {} THEN scores
    ELSE LET category == CHOOSE c \in todo : TRUE
             current  == get_or(scores, category, HALF)
             updated  == updated_score(current, activity[category], time_decay)
         IN  category_loop(insert(scores, category, updated), activity,
                           todo \ {category}, time_decay)

\* overall_of without the final clamp.
overall_of_unclamped(scores, level) ==
    calculate_weighted_score(scores) * verification_multiplier(level)

\* overall_score = (base_score * verification_multiplier).clamp(0.0, 1.0)
overall_of(scores, level) ==
    clamp(calculate_weighted_score(scores) * verification_multiplier(level), 0, OONE)

\* updated_token computing overall_score before the category loop has run.
updated_token_stale_overall(token, new_activity, current_time) ==
    LET time_decay == calculate_exponential_decay(token.last_updated, current_time,
                                                  DECAY_HALF_LIFE)
        scores     == category_loop(token.category_scores, new_activity,
                                    DOMAIN new_activity, time_decay)
    IN  [overall_score      |-> overall_of(token.category_scores, token.verification_level),
         category_scores    |-> scores,
         verification_level |-> token.verification_level,
         last_updated       |-> current_time]

\* updated_token decaying also the categories the activity does not carry.
updated_token_decay_all(token, new_activity, current_time) ==
    LET time_decay == calculate_exponential_decay(token.last_updated, current_time,
                                                  DECAY_HALF_LIFE)
        blended    == category_loop(token.category_scores, new_activity,
                                    DOMAIN new_activity, time_decay)
        scores     == [k \in DOMAIN blended |->
                          IF k \in DOMAIN new_activity THEN blended[k]
                          ELSE clamp((blended[k] * time_decay) \div DSCALE, 0, ONE)]
    IN  [overall_score      |-> overall_of(scores, token.verification_level),
         category_scores    |-> scores,
         verification_level |-> token.verification_level,
         last_updated       |-> current_time]

\* updated_token leaving last_updated as it was.
updated_token_keeps_timestamp(token, new_activity, current_time) ==
    LET time_decay == calculate_exponential_decay(token.last_updated, current_time,
                                                  DECAY_HALF_LIFE)
        scores     == category_loop(token.category_scores, new_activity,
                                    DOMAIN new_activity, time_decay)
    IN  [overall_score      |-> overall_of(scores, token.verification_level),
         category_scores    |-> scores,
         verification_level |-> token.verification_level,
         last_updated       |-> token.last_updated]

\* The token after update_reputation has run on it at current_time.
updated_token(token, new_activity, current_time) ==
    LET time_decay == calculate_exponential_decay(token.last_updated, current_time,
                                                  DECAY_HALF_LIFE)
        scores     == category_loop(token.category_scores, new_activity,
                                    DOMAIN new_activity, time_decay)
    IN  [overall_score      |-> overall_of(scores, token.verification_level),
         category_scores    |-> scores,
         verification_level |-> token.verification_level,
         last_updated       |-> current_time]

----------------------------------------------------------------------------
(* Trend analyzer: EmotionalBridgeProcessor::analyze_emotional_trend. *)

\* Longest history the analyzer is given.
MaxHistory == 6

\* The thresholds 0.1 and 0.3 of the match arms, in hundredths.
STABLE_BELOW == 10
VOLATILE_ABOVE == 30

Min(a, b) == IF a < b THEN a ELSE b

\* recent = history.iter().take(5.min(history.len())).collect()
recent_of(history) == SubSeq(history, 1, Min(5, Len(history)))

\* classify_diffs trying the Descending test before the Ascending test.
classify_diffs_descending_first(valence_diff, arousal_diff) ==
    LET v == Abs(valence_diff)
        a == Abs(arousal_diff)
    IN  IF v < STABLE_BELOW /\ a < STABLE_BELOW THEN "Stable"
        ELSE IF v > VOLATILE_ABOVE \/ a > VOLATILE_ABOVE THEN "Volatile"
        ELSE IF valence_diff < -STABLE_BELOW \/ arousal_diff < -STABLE_BELOW
             THEN "Descending"
        ELSE IF valence_diff > STABLE_BELOW \/ arousal_diff > STABLE_BELOW THEN "Ascending"
        ELSE "Stable"

\* classify_diffs whose Ascending and Descending tests include the value 0.1.
classify_diffs_inclusive(valence_diff, arousal_diff) ==
    LET v == Abs(valence_diff)
        a == Abs(arousal_diff)
    IN  IF v < STABLE_BELOW /\ a < STABLE_BELOW THEN "Stable"
        ELSE IF v > VOLATILE_ABOVE \/ a > VOLATILE_ABOVE THEN "Volatile"
        ELSE IF valence_diff >= STABLE_BELOW \/ arousal_diff >= STABLE_BELOW THEN "Ascending"
        ELSE IF valence_diff <= -STABLE_BELOW \/ arousal_diff <= -STABLE_BELOW
             THEN "Descending"
        ELSE "Stable"

\* classify_diffs answering Stable when one difference rises above 0.1 while the
\* other falls below -0.1.
classify_diffs_conflict_stable(valence_diff, arousal_diff) ==
    LET v == Abs(valence_diff)
        a == Abs(arousal_diff)
        rising  == valence_diff > STABLE_BELOW \/ arousal_diff > STABLE_BELOW
        falling == valence_diff < -STABLE_BELOW \/ arousal_diff < -STABLE_BELOW
    IN  IF v < STABLE_BELOW /\ a < STABLE_BELOW THEN "Stable"
        ELSE IF v > VOLATILE_ABOVE \/ a > VOLATILE_ABOVE THEN "Volatile"
        ELSE IF rising /\ ~falling THEN "Ascending"
        ELSE IF falling /\ ~rising THEN "Descending"
        ELSE "Stable"

\* The match on (valence_diff.abs(), arousal_diff.abs()) and its inner if chain.
classify_diffs(valence_diff, arousal_diff) ==
    LET v == Abs(valence_diff)
        a == Abs(arousal_diff)
    IN  IF v < STABLE_BELOW /\ a < STABLE_BELOW THEN "Stable"
        ELSE IF v > VOLATILE_ABOVE \/ a > VOLATILE_ABOVE THEN "Volatile"
        ELSE IF valence_diff > STABLE_BELOW \/ arousal_diff > STABLE_BELOW THEN "Ascending"
        ELSE IF valence_diff < -STABLE_BELOW \/ arousal_diff < -STABLE_BELOW
             THEN "Descending"
        ELSE "Stable"

\* analyze_emotional_trend answering Volatile when the history is too short.
analyze_emotional_trend_short_volatile(history) ==
    IF Len(history) < 2 THEN "Volatile"
    ELSE LET recent == recent_of(history)
             oldest == recent[1]
             newest == recent[Len(recent)]
         IN  classify_diffs(newest.valence - oldest.valence,
                            newest.arousal - oldest.arousal)

analyze_emotional_trend(history) ==
    IF Len(history) < 2 THEN "Stable"
    ELSE LET recent == recent_of(history)
             oldest == recent[1]
             newest == recent[Len(recent)]
         IN  classify_diffs(newest.valence - oldest.valence,
                            newest.arousal - oldest.arousal)

\* f32::sqrt, rounded down to a whole hundredth.
sqrt(x) == CHOOSE r \in 0 .. x : r * r <= x /\ (r + 1) * (r + 1) > x

\* total_distance of EmotionalMetadata::calculate_complexity: the sum of the
\* distances between consecutive (valence, arousal) pairs.
RECURSIVE total_distance(_, _)
total_distance(trajectory, i) ==
    IF i > Len(trajectory) THEN 0
    ELSE LET prev == trajectory[i - 1]
             curr == trajectory[i]
             distance == sqrt((curr.valence - prev.valence) * (curr.valence - prev.valence)
                              + (curr.arousal - prev.arousal) * (curr.arousal - prev.arousal))
         IN  distance + total_distance(trajectory, i + 1)

\* EmotionalMetadata::calculate_complexity, the value it stores in
\* emotional_complexity, in hundredths (the quotient rounded down).
calculate_complexity(trajectory) ==
    IF Len(trajectory) < 2 THEN 0
    ELSE clamp(total_distance(trajectory, 2) \div Len(trajectory), 0, 100)

\* Axis values of the observations, in hundredths: between them lie the
\* differences 0.02, 0.05, 0.1, 0.15, 0.2, 0.3, 0.35 and 0.4 in both directions.
AxisGrid == {-20, -10, 0, 2, 5, 10, 15, 20}
Observations == [valence : AxisGrid, arousal : AxisGrid]
\* Observations of the histories longer than two entries.
CoarseObservations == [valence : {-20, 0, 20}, arousal : {0}]

Histories ==
    UNION {[1 .. n -> IF n <= 2 THEN Observations ELSE CoarseObservations] :
               n \in 0 .. MaxHistory}

----------------------------------------------------------------------------
(* Reputation update engine: SoulboundManager::update_reputation. *)

\* Scores an activity may carry: 0 and 1 are valid, 2 is outside [0,1].
ValidScores == {0, ONE}
ScoreInputs == ValidScores \cup {2 * ONE}

\* Activities the event source delivers: at most two categories each.
ActivityDomains == {S \in SUBSET Categories : Cardinality(S) <= 2}
Activities == UNION {[S -> ScoreInputs] : S \in ActivityDomains}

Timestamps == 0 .. MaxTime

\* A call is kept with its arguments, its result and the token it found.
NoCall == [activity |-> EmptyMap, now |-> 0, result |-> "none", before |-> "none"]

VARIABLES
    token,         \* the token's reputation state (reputation_score and last_updated)
    calls,         \* number of update_reputation calls so far
    last_call,     \* the arguments and the result of the latest call
    prev_token,    \* token as it was before the latest call
    prev_call,     \* the arguments and the result of the call before the latest
    history,       \* the emotional history handed to the analyzer
    trend,         \* the analyzer's result, "none" before it has run
    complexity,    \* emotional_complexity in hundredths, -1 before it is computed
    other_token,   \* the reputation state of a second token in the same manager
    clock,         \* what current_timestamp() returns to the concurrent callers
    lock,          \* the caller holding exclusive access to the token, or "free"
    pc,            \* each concurrent caller's position in update_reputation
    local,         \* each concurrent caller's arguments and local variables
    client,          \* api, contract and the progress of connect() of each TypeScript client
    activeTransfers, \* PolkadotAIBridge.activeTransfers: transfer id -> status
    bridgeState,     \* PolkadotAIBridge.bridgeState: transfer id -> status
    transfers,       \* every transfer object created and its initiateCrossChainTransfer call
    contract_calls,  \* number of contract queries and transactions the clients have made
    last_op,         \* the latest client operation and how it ended
    emotional_data,  \* EmotionalBridge.emotional_data: token id -> EmotionalMetadata
    bridge_info,     \* EmotionalBridge.bridge_info: token id -> BridgeInfo
    token_counter,   \* EmotionalBridge.token_counter
    total_bridged,   \* EmotionalBridge.total_bridged
    store_log,       \* the store_emotional_data calls so far: arguments and returned id
    last_msg,        \* the latest contract message and its result
    util             \* the latest call of a TypeScript utility: arguments and value

reputationVars == <<token, calls, last_call, prev_token, prev_call>>
analyzerVars == <<history, trend, complexity>>
callerVars == <<other_token, clock, lock, pc, local>>
transferVars == <<activeTransfers, bridgeState, transfers>>
clientVars == <<client, transferVars, contract_calls, last_op>>
contractVars == <<emotional_data, bridge_info, token_counter, total_bridged,
                  store_log, last_msg>>
utilVars == <<util>>
chainVars == <<clientVars, contractVars, utilVars>>
vars == <<token, calls, last_call, prev_token, prev_call, history, trend, complexity,
          other_token, clock, lock, pc, local,
          client, activeTransfers, bridgeState, transfers, contract_calls, last_op,
          emotional_data, bridge_info, token_counter, total_bridged, store_log, last_msg,
          util>>

\* A freshly created token: empty category map, overall_score 0.
new_token(level) ==
    [overall_score |-> 0, category_scores |-> EmptyMap,
     verification_level |-> level, last_updated |-> 0]

InitReputation ==
    /\ \E level \in VerificationLevels : token = new_token(level)
    /\ calls = 0
    /\ last_call = NoCall
    /\ prev_token = token
    /\ prev_call = NoCall

InitAnalyzer ==
    /\ history = << >>
    /\ trend = "none"
    /\ complexity = -1

\* The callers that run update_reputation on the token concurrently.
Callers == {"c1", "c2"}

\* The token ids the manager holds; update_reputation's token_id may be neither.
TokenIds == {"t1", "t2"}

NoLocal == [token_id |-> "t1", activity |-> EmptyMap, current_time |-> 0,
            time_decay |-> 0, todo |-> {}, category |-> "none", current |-> 0,
            contended |-> FALSE, result |-> "none"]

InitCallers ==
    /\ other_token = new_token("Verified")
    /\ clock = 0
    /\ lock = "free"
    /\ pc = [c \in Callers |-> "idle"]
    /\ local = [c \in Callers |-> NoLocal]

\* The two TypeScript clients and their chain operations.
Clients == {"bridge", "soulbound"}
BridgeOps == {"initiateCrossChainTransfer", "getTransferDetails"}
SoulboundOps == {"createIdentity", "getIdentity", "getIdentityByOwner",
                 "updateIdentity", "requestVerification"}
OpsOf(k) == IF k = "bridge" THEN BridgeOps ELSE SoulboundOps

\* Contract calls the clients may make in one run, and transfers they may start.
MaxOps == 2
MaxTransfers == 2
TransferIds == 1 .. MaxTransfers
\* Results the signAndSend callback may report for one transfer.
MaxCallbacks == 2

NoOp == [client |-> "none", op |-> "none", ready |-> FALSE, result |-> "none",
         changed |-> FALSE]

\* private api: ApiPromise | null = null; private contract: ContractPromise | null
\* = null; the maps empty; no connect() running and none has succeeded.
InitClient ==
    /\ client = [k \in Clients |-> [api |-> FALSE, contract |-> FALSE,
                                    connecting |-> "no", succeeded |-> FALSE]]
    /\ activeTransfers = EmptyMap
    /\ bridgeState = EmptyMap
    /\ transfers = EmptyMap
    /\ contract_calls = 0
    /\ last_op = NoOp

\* Token ids the contract may hand out in one run, and the callers' accounts.
MaxTokens == 3
Accounts == {"deployer", "stranger"}
NoMsg == [msg |-> "none", caller |-> "none", token_id |-> 0, arg |-> "none",
          result |-> "none", event |-> "none"]

\* EmotionalBridge::new(): owner = caller, token_counter = 0, total_bridged = 0,
\* both mappings empty.
InitContract ==
    /\ emotional_data = EmptyMap
    /\ bridge_info = EmptyMap
    /\ token_counter = 0
    /\ total_bridged = 0
    /\ store_log = << >>
    /\ last_msg = NoMsg

\* arg and result are records in every call, named after the parameters and the
\* fields of the value.
NoUtil == [fn |-> "none", arg |-> [none |-> TRUE], result |-> [none |-> TRUE]]

InitUtil == util = NoUtil

InitChain == InitClient /\ InitContract /\ InitUtil

Init == InitReputation /\ InitAnalyzer /\ InitCallers /\ InitChain

\* SoulboundManager::update_reputation(&mut self, token_id, new_activity) on the
\* token of token_id, the clock returning current_time.
update_reputation(new_activity, current_time) ==
    /\ calls < MaxCalls
    /\ calls' = calls + 1
    /\ prev_token' = token
    /\ prev_call' = last_call
    /\ token' = updated_token(token, new_activity, current_time)
    /\ last_call' = [activity |-> new_activity, now |-> current_time, result |-> "Ok",
                     before |-> token]
    /\ UNCHANGED <<chainVars, analyzerVars, callerVars>>

Next ==
    \E new_activity \in Activities, current_time \in Timestamps :
        update_reputation(new_activity, current_time)

Spec == Init /\ [][Next]_vars

\* Tokens as earlier calls can have left them at time 0: of level Basic, with no
\* category yet or with one category holding 0, 0.5 or 1.
SeenTokens ==
    {new_token("Basic")} \cup
    {[overall_score      |-> overall_of([k \in {"emotional_consistency"} |-> c], "Basic"),
      category_scores    |-> [k \in {"emotional_consistency"} |-> c],
      verification_level |-> "Basic",
      last_updated       |-> 0] : c \in {0, HALF, ONE}}

InitBlend ==
    /\ token \in SeenTokens
    /\ calls = 0
    /\ last_call = NoCall
    /\ prev_token = token
    /\ prev_call = NoCall
    /\ InitAnalyzer
    /\ InitCallers
    /\ InitChain

\* update_reputation called on a token that may hold a category already.
SpecBlend == InitBlend /\ [][Next]_vars

\* The analyzer applied to one history drawn from Histories.
InitTrend ==
    /\ history \in Histories
    /\ trend = "none"
    /\ complexity = -1
    /\ token = new_token("Basic")
    /\ calls = 0
    /\ last_call = NoCall
    /\ prev_token = token
    /\ prev_call = NoCall
    /\ InitCallers
    /\ InitChain

analyze ==
    /\ trend = "none"
    /\ trend' = analyze_emotional_trend(history)
    /\ UNCHANGED <<chainVars, history, complexity, reputationVars, callerVars>>

\* calculate_complexity on the metadata whose emotional_trajectory is history.
compute_complexity ==
    /\ complexity = -1
    /\ complexity' = calculate_complexity(history)
    /\ UNCHANGED <<chainVars, history, trend, reputationVars, callerVars>>

NextTrend == analyze \/ compute_complexity

SpecTrend == InitTrend /\ [][NextTrend]_vars

----------------------------------------------------------------------------
(* update_reputation statement by statement, run by concurrent callers that *)
(* hold exclusive access to the token from entry to return.                 *)

\* Activities of the concurrent callers: in-range scores for one or two of two
\* categories, or none.
CallerCategories == {"creative_output_quality", "custom"}
CallerActivities == UNION {[S -> ValidScores] : S \in SUBSET CallerCategories}

\* The statements of the body, between taking and giving up exclusive access.
InBody(c) == pc[c] \in {"decay", "read", "write", "recalc", "stamp", "return"}

\* self.get_token_mut(token_id): the token the id names.
TokenOf(token_id) == IF token_id = "t1" THEN token ELSE other_token

\* Store writing every token's fields into the first token.
Store_shared(token_id, new) ==
    /\ token' = new
    /\ UNCHANGED other_token

\* An assignment through the &mut SoulboundToken that get_token_mut returned.
Store(token_id, new) ==
    IF token_id = "t1"
    THEN token' = new /\ UNCHANGED other_token
    ELSE other_token' = new /\ UNCHANGED token

\* The clock advances.
tick ==
    /\ clock < MaxTime
    /\ clock' = clock + 1
    /\ UNCHANGED <<chainVars, reputationVars, analyzerVars, other_token, lock, pc, local>>

\* A caller invokes update_reputation with new_activity.
invoke(c, new_activity) ==
    /\ pc[c] = "idle"
    /\ pc' = [pc EXCEPT ![c] = "waiting"]
    /\ local' = [local EXCEPT ![c] = [NoLocal EXCEPT !.activity = new_activity,
                                                     !.contended = (lock # "free")]]
    /\ UNCHANGED <<chainVars, reputationVars, analyzerVars, other_token, clock, lock>>

\* acquire entering the body whether or not another caller is inside it.
acquire_unguarded(c) ==
    /\ pc[c] = "waiting"
    /\ lock' = c
    /\ pc' = [pc EXCEPT ![c] = "decay"]
    /\ UNCHANGED <<chainVars, reputationVars, analyzerVars, other_token, clock, local>>

\* The caller obtains exclusive access (&mut self) and the token.
acquire(c) ==
    /\ pc[c] = "waiting"
    /\ lock = "free"
    /\ lock' = c
    /\ pc' = [pc EXCEPT ![c] = "decay"]
    /\ UNCHANGED <<chainVars, reputationVars, analyzerVars, other_token, clock, local>>

\* current_time = current_timestamp(); time_decay = calculate_exponential_decay(...)
compute_decay(c) ==
    /\ pc[c] = "decay"
    /\ local[c].token_id \in TokenIds
    /\ local' = [local EXCEPT
                    ![c].current_time = clock,
                    ![c].time_decay = calculate_exponential_decay(
                                         TokenOf(local[c].token_id).last_updated,
                                         clock, DECAY_HALF_LIFE),
                    ![c].todo = DOMAIN local[c].activity]
    /\ pc' = [pc EXCEPT ![c] = IF DOMAIN local[c].activity = {} THEN "recalc" ELSE "read"]
    /\ UNCHANGED <<chainVars, reputationVars, analyzerVars, other_token, clock, lock>>

\* The loop takes its next category: current = category_scores.get(category).unwrap_or(&0.5)
read_current(c) ==
    /\ pc[c] = "read"
    /\ \E category \in local[c].todo :
           local' = [local EXCEPT
                        ![c].category = category,
                        ![c].current = get_or(TokenOf(local[c].token_id).category_scores,
                                              category, HALF)]
    /\ pc' = [pc EXCEPT ![c] = "write"]
    /\ UNCHANGED <<chainVars, reputationVars, analyzerVars, other_token, clock, lock>>

\* category_scores.insert(category, updated)
write_updated(c) ==
    /\ pc[c] = "write"
    /\ LET category == local[c].category
           updated  == updated_score(local[c].current, local[c].activity[category],
                                     local[c].time_decay)
       IN  Store(local[c].token_id,
                 [TokenOf(local[c].token_id) EXCEPT
                     !.category_scores = insert(@, category, updated)])
    /\ local' = [local EXCEPT ![c].todo = @ \ {local[c].category}]
    /\ pc' = [pc EXCEPT ![c] = IF local'[c].todo = {} THEN "recalc" ELSE "read"]
    /\ UNCHANGED <<chainVars, calls, last_call, prev_token, prev_call, analyzerVars, clock, lock>>

\* overall_score = (base_score * verification_multiplier).clamp(0.0, 1.0)
recalculate(c) ==
    /\ pc[c] = "recalc"
    /\ LET t == TokenOf(local[c].token_id)
       IN  Store(local[c].token_id,
                 [t EXCEPT !.overall_score =
                      overall_of(t.category_scores, t.verification_level)])
    /\ pc' = [pc EXCEPT ![c] = "stamp"]
    /\ UNCHANGED <<chainVars, calls, last_call, prev_token, prev_call, analyzerVars, clock, lock, local>>

\* token.last_updated = current_time
stamp(c) ==
    /\ pc[c] = "stamp"
    /\ Store(local[c].token_id,
             [TokenOf(local[c].token_id) EXCEPT !.last_updated = local[c].current_time])
    /\ pc' = [pc EXCEPT ![c] = "return"]
    /\ local' = [local EXCEPT ![c].result = "Ok"]
    /\ UNCHANGED <<chainVars, calls, last_call, prev_token, prev_call, analyzerVars, clock, lock>>

\* The call returns and gives up exclusive access.
release(c) ==
    /\ pc[c] = "return"
    /\ lock' = "free"
    /\ pc' = [pc EXCEPT ![c] = "done"]
    /\ UNCHANGED <<chainVars, reputationVars, analyzerVars, other_token, clock, local>>

NextLocked ==
    \/ tick
    \/ \E c \in Callers, new_activity \in CallerActivities : invoke(c, new_activity)
    \/ \E c \in Callers : acquire(c)
    \/ \E c \in Callers : compute_decay(c)
    \/ \E c \in Callers : read_current(c)
    \/ \E c \in Callers : write_updated(c)
    \/ \E c \in Callers : recalculate(c)
    \/ \E c \in Callers : stamp(c)
    \/ \E c \in Callers : release(c)

SpecLocked == Init /\ [][NextLocked]_vars

----------------------------------------------------------------------------
(* The same statements run by callers that take no exclusive access, on *)
(* either token of the manager.                                          *)

\* A caller invokes update_reputation(token_id, new_activity).
invoke_on(c, token_id, new_activity) ==
    /\ pc[c] = "idle"
    /\ pc' = [pc EXCEPT ![c] = "waiting"]
    /\ local' = [local EXCEPT ![c] = [NoLocal EXCEPT !.token_id = token_id,
                                                     !.activity = new_activity,
                                                     !.contended = (lock # "free")]]
    /\ UNCHANGED <<chainVars, reputationVars, analyzerVars, other_token, clock, lock>>

\* enter that does not note whether another call is inside the body.
enter_unnoted(c) ==
    /\ pc[c] = "waiting"
    /\ pc' = [pc EXCEPT ![c] = "decay"]
    /\ UNCHANGED <<chainVars, reputationVars, analyzerVars, other_token, clock, lock, local>>

\* The caller starts the body at once; contended notes whether another call is
\* inside the body at that moment.
enter(c) ==
    /\ pc[c] = "waiting"
    /\ pc' = [pc EXCEPT ![c] = "decay"]
    /\ local' = [local EXCEPT ![c].contended =
                     \E d \in Callers \ {c} : InBody(d)]
    /\ UNCHANGED <<chainVars, reputationVars, analyzerVars, other_token, clock, lock>>

\* The call returns.
leave(c) ==
    /\ pc[c] = "return"
    /\ pc' = [pc EXCEPT ![c] = "done"]
    /\ UNCHANGED <<chainVars, reputationVars, analyzerVars, other_token, clock, lock, local>>

NextUnlocked ==
    \/ tick
    \/ \E c \in Callers, token_id \in TokenIds, new_activity \in CallerActivities :
           invoke_on(c, token_id, new_activity)
    \/ \E c \in Callers : enter(c)
    \/ \E c \in Callers : compute_decay(c)
    \/ \E c \in Callers : read_current(c)
    \/ \E c \in Callers : write_updated(c)
    \/ \E c \in Callers : recalculate(c)
    \/ \E c \in Callers : stamp(c)
    \/ \E c \in Callers : leave(c)

\* Two tokens as they were created, the first of level Basic, and nothing called
\* yet.
InitUnlocked ==
    /\ token = new_token("Basic")
    /\ calls = 0
    /\ last_call = NoCall
    /\ prev_token = token
    /\ prev_call = NoCall
    /\ InitAnalyzer
    /\ InitCallers
    /\ InitChain

SpecUnlocked == InitUnlocked /\ [][NextUnlocked]_vars

----------------------------------------------------------------------------
(* The locked callers again, now also with calls that fail: a token_id the *)
(* manager does not hold makes get_token_mut(token_id)? return the error.  *)

\* lookup_failed returning without giving up exclusive access.
lookup_failed_leaks(c) ==
    /\ pc[c] = "decay"
    /\ local[c].token_id \notin TokenIds
    /\ pc' = [pc EXCEPT ![c] = "done"]
    /\ local' = [local EXCEPT ![c].result = "TokenNotFound"]
    /\ UNCHANGED <<chainVars, reputationVars, analyzerVars, other_token, clock, lock>>

\* let token = self.get_token_mut(token_id)?; with no such token: the error is
\* returned before any statement of the body has run.
lookup_failed(c) ==
    /\ pc[c] = "decay"
    /\ local[c].token_id \notin TokenIds
    /\ pc' = [pc EXCEPT ![c] = "return"]
    /\ local' = [local EXCEPT ![c].result = "TokenNotFound"]
    /\ UNCHANGED <<chainVars, reputationVars, analyzerVars, other_token, clock, lock>>

\* What one caller does once it has invoked update_reputation.
Run(c) ==
    \/ acquire(c)
    \/ lookup_failed(c)
    \/ compute_decay(c)
    \/ read_current(c)
    \/ write_updated(c)
    \/ recalculate(c)
    \/ stamp(c)
    \/ release(c)

NextFallible ==
    \/ tick
    \/ \E c \in Callers, new_activity \in CallerActivities :
           invoke_on(c, "t1", new_activity)
    \/ \E c \in Callers : invoke_on(c, "missing", EmptyMap)
    \/ \E c \in Callers : Run(c)

\* A caller that can take a step eventually takes one: a thread inside
\* update_reputation runs on, and a waiting one is admitted once access is free.
SpecFallible ==
    Init /\ [][NextFallible]_vars /\ \A c \in Callers : WF_vars(Run(c))

----------------------------------------------------------------------------
(* PolkadotAIBridge and PolkadotSoulboundClient: connect(), disconnect() and *)
(* the not-initialized guard of every chain operation.                       *)

nonClientVars == <<reputationVars, analyzerVars, callerVars, contractVars, utilVars>>

\* The operations whose guard is !this.contract || !this.api; the others test
\* !this.contract only.
NeedsApi(op) ==
    op \in {"initiateCrossChainTransfer", "createIdentity", "updateIdentity",
            "requestVerification"}

\* The guard lets the operation pass.
initialized(k, op) == client[k].contract /\ (NeedsApi(op) => client[k].api)

\* connect() is called and waits for ApiPromise.create.
connect(k) ==
    /\ client[k].connecting = "no"
    /\ client' = [client EXCEPT ![k].connecting = "create"]
    /\ UNCHANGED <<transferVars, contract_calls, last_op, nonClientVars>>

\* ApiPromise.create rejects: connect() rethrows, nothing was assigned.
api_rejected(k) ==
    /\ client[k].connecting = "create"
    /\ client' = [client EXCEPT ![k].connecting = "no"]
    /\ UNCHANGED <<transferVars, contract_calls, last_op, nonClientVars>>

\* ApiPromise.create resolves: this.api and this.contract are assigned. The
\* soulbound client's connect() has then succeeded; the bridge's goes on to await
\* mlBridge.initialize().
api_resolved(k) ==
    /\ client[k].connecting = "create"
    /\ client' = [client EXCEPT
                     ![k].api = TRUE,
                     ![k].contract = TRUE,
                     ![k].connecting = IF k = "bridge" THEN "ml" ELSE "no",
                     ![k].succeeded = IF k = "bridge" THEN @ ELSE TRUE]
    /\ UNCHANGED <<transferVars, contract_calls, last_op, nonClientVars>>

\* mlBridge.initialize() resolves: the bridge's connect() has succeeded.
ml_resolved ==
    /\ client["bridge"].connecting = "ml"
    /\ client' = [client EXCEPT !["bridge"].connecting = "no",
                                !["bridge"].succeeded = TRUE]
    /\ UNCHANGED <<transferVars, contract_calls, last_op, nonClientVars>>

\* mlBridge.initialize() rejects: connect() logs and rethrows; api and contract
\* keep the values assigned before.
ml_rejected ==
    /\ client["bridge"].connecting = "ml"
    /\ client' = [client EXCEPT !["bridge"].connecting = "no"]
    /\ UNCHANGED <<transferVars, contract_calls, last_op, nonClientVars>>

\* disconnect(): if (this.api) { api.disconnect(); api = null; contract = null }
disconnect(k) ==
    /\ client' = [client EXCEPT
                     ![k].api = FALSE,
                     ![k].contract = IF client[k].api THEN FALSE ELSE @,
                     ![k].succeeded = FALSE]
    /\ last_op' = [client |-> k, op |-> "disconnect", ready |-> client[k].succeeded,
                   result |-> IF client'[k].api \/ client'[k].contract
                              THEN "StillSet" ELSE "Reset",
                   changed |-> FALSE]
    /\ UNCHANGED <<transferVars, contract_calls, nonClientVars>>

\* The transfer object initiateCrossChainTransfer creates, and its call: status
\* is the object's status field, pc the await the call has reached, outcome how
\* the returned promise settled, callbacks the results signAndSend has reported,
\* error_seen whether one of them carried a dispatchError, last_result the latest.
NewTransfer == [status |-> "processing", pc |-> "estimate", outcome |-> "pending",
                callbacks |-> 0, error_seen |-> FALSE, last_result |-> "none"]

\* A chain operation: the guard throws, or the operation goes to the contract;
\* initiateCrossChainTransfer first registers the transfer as 'processing'.
operate(k, op) ==
    /\ IF ~initialized(k, op)
       THEN UNCHANGED <<activeTransfers, transfers, contract_calls>>
       ELSE /\ contract_calls < MaxOps
            /\ contract_calls' = contract_calls + 1
            /\ IF op = "initiateCrossChainTransfer"
               THEN \E transferId \in TransferIds \ DOMAIN transfers :
                        /\ activeTransfers' = insert(activeTransfers, transferId,
                                                     NewTransfer.status)
                        /\ transfers' = insert(transfers, transferId, NewTransfer)
               ELSE UNCHANGED <<activeTransfers, transfers>>
    /\ last_op' = [client |-> k, op |-> op, ready |-> client[k].succeeded,
                   result |-> IF initialized(k, op) THEN "Called" ELSE "NotInitialized",
                   changed |-> (activeTransfers' # activeTransfers
                                \/ contract_calls' # contract_calls)]
    /\ UNCHANGED <<client, bridgeState, nonClientVars>>

\* Map m without the key k, and m with the status of k (if present) set to st:
\* the maps hold the one transfer object, so a status written to it shows in both.
delete(m, k) == [x \in DOMAIN m \ {k} |-> m[x]]
with_status(m, k, st) == [x \in DOMAIN m |-> IF x = k THEN st ELSE m[x]]

\* An await of the call resolves: the gas estimate (contract.query.initiateTransfer),
\* then the transaction (contract.tx.initiateTransfer), after which signAndSend
\* is called.
await_resolved(transferId) ==
    /\ transferId \in DOMAIN transfers
    /\ transfers[transferId].pc \in {"estimate", "build"}
    /\ transfers' = [transfers EXCEPT ![transferId].pc =
                         IF @ = "estimate" THEN "build" ELSE "sent"]
    /\ UNCHANGED <<client, activeTransfers, bridgeState, contract_calls, last_op,
                   nonClientVars>>

\* The gas estimate, the construction of the transaction or signAndSend rejects:
\* catch (error) { console.error(...); throw error; } or .catch(reject).
await_rejected(transferId) ==
    /\ transferId \in DOMAIN transfers
    /\ transfers[transferId].pc \in {"estimate", "build", "sent"}
    /\ transfers[transferId].outcome = "pending"
    /\ transfers' = [transfers EXCEPT ![transferId].pc = "aborted",
                                      ![transferId].outcome = "rejected"]
    /\ UNCHANGED <<client, activeTransfers, bridgeState, contract_calls, last_op,
                   nonClientVars>>

\* The signAndSend callback gets a result with status.isInBlock, whether or not
\* the result carries a dispatchError: transfer.status = 'completed';
\* bridgeState.set; activeTransfers.delete; resolve.
transfer_in_block(transferId, dispatchError) ==
    /\ transferId \in DOMAIN transfers
    /\ transfers[transferId].pc = "sent"
    /\ transfers[transferId].callbacks < MaxCallbacks
    /\ transfers' = [transfers EXCEPT
                        ![transferId].status = "completed",
                        ![transferId].callbacks = @ + 1,
                        ![transferId].error_seen = @ \/ dispatchError,
                        ![transferId].last_result =
                            IF dispatchError THEN "inBlock, dispatchError" ELSE "inBlock",
                        ![transferId].outcome = IF @ = "pending" THEN "resolved" ELSE @]
    /\ bridgeState' = insert(bridgeState, transferId, "completed")
    /\ activeTransfers' = delete(activeTransfers, transferId)
    /\ UNCHANGED <<client, contract_calls, last_op, nonClientVars>>

\* The callback gets a result that is not in a block and carries a dispatchError:
\* transfer.status = 'failed'; activeTransfers.delete; reject.
transfer_dispatch_error(transferId) ==
    /\ transferId \in DOMAIN transfers
    /\ transfers[transferId].pc = "sent"
    /\ transfers[transferId].callbacks < MaxCallbacks
    /\ transfers' = [transfers EXCEPT
                        ![transferId].status = "failed",
                        ![transferId].callbacks = @ + 1,
                        ![transferId].error_seen = TRUE,
                        ![transferId].last_result = "dispatchError",
                        ![transferId].outcome = IF @ = "pending" THEN "rejected" ELSE @]
    /\ bridgeState' = with_status(bridgeState, transferId, "failed")
    /\ activeTransfers' = delete(activeTransfers, transferId)
    /\ UNCHANGED <<client, contract_calls, last_op, nonClientVars>>

\* The callback gets any other result (ready, broadcast, ...): nothing happens.
transfer_progress(transferId) ==
    /\ transferId \in DOMAIN transfers
    /\ transfers[transferId].pc = "sent"
    /\ transfers[transferId].callbacks < MaxCallbacks
    /\ transfers' = [transfers EXCEPT ![transferId].callbacks = @ + 1,
                                      ![transferId].last_result = "other"]
    /\ UNCHANGED <<client, activeTransfers, bridgeState, contract_calls, last_op,
                   nonClientVars>>

\* getBridgeStatistics(): the counts over bridgeState.values(); successRate, a
\* quotient times 100, is kept as numerator and denominator.
getBridgeStatistics ==
    LET completed == Cardinality({x \in DOMAIN bridgeState : bridgeState[x] = "completed"})
        failed    == Cardinality({x \in DOMAIN bridgeState : bridgeState[x] = "failed"})
        total     == Cardinality(DOMAIN bridgeState)
    IN  [totalTransfers |-> total,
         completedTransfers |-> completed,
         failedTransfers |-> failed,
         activeTransfers |-> Cardinality(DOMAIN activeTransfers),
         successRate |-> IF total > 0 THEN [num |-> completed * 100, den |-> total]
                         ELSE [num |-> 0, den |-> 1]]

NextClient ==
    \/ \E k \in Clients : connect(k)
    \/ \E k \in Clients : api_rejected(k)
    \/ \E k \in Clients : api_resolved(k)
    \/ ml_resolved
    \/ ml_rejected
    \/ \E k \in Clients : disconnect(k)
    \/ \E k \in Clients : \E op \in OpsOf(k) : operate(k, op)
    \/ \E transferId \in TransferIds : await_resolved(transferId)
    \/ \E transferId \in TransferIds : await_rejected(transferId)
    \/ \E transferId \in TransferIds, dispatchError \in BOOLEAN :
           transfer_in_block(transferId, dispatchError)
    \/ \E transferId \in TransferIds : transfer_dispatch_error(transferId)
    \/ \E transferId \in TransferIds : transfer_progress(transferId)

SpecClient == InitUnlocked /\ [][NextClient]_vars

----------------------------------------------------------------------------
(* The emotional_bridge ink! contract. *)

nonContractVars == <<reputationVars, analyzerVars, callerVars, clientVars, utilVars>>

\* token_counter and total_bridged are u64; the runs here stay far below 2^64, so
\* their += 1 is plain addition.

\* Successful bridge_token calls in one run.
MaxBridged == 2

\* Arguments of the messages and values of block_timestamp().
Valences == {-100, 100}
BlockTimes == {1, 2}
Chains == {"Ethereum", "Solana"}
Statuses == {"completed"}

\* The account that called the constructor.
owner == "deployer"

\* store_emotional_data taking the new id after the increment.
store_emotional_data_counter_first(caller, valence, now) ==
    /\ token_counter < MaxTokens
    /\ LET token_id == token_counter + 1
           emotional_metadata ==
               [valence |-> valence, arousal |-> 50, dominance |-> 50,
                timestamp |-> now, emotional_category |-> "joy"]
       IN  /\ emotional_data' = insert(emotional_data, token_id, emotional_metadata)
           /\ token_counter' = token_id
           /\ store_log' = Append(store_log, [returned |-> token_id,
                                              stored |-> emotional_metadata])
           /\ last_msg' = [msg |-> "store_emotional_data", caller |-> caller,
                           token_id |-> token_id, arg |-> "joy", result |-> "Ok",
                           event |-> "EmotionalDataStored"]
    /\ UNCHANGED <<bridge_info, total_bridged, nonContractVars>>

\* store_emotional_data(valence, arousal, dominance, emotional_category) -> u64
store_emotional_data(caller, valence, now) ==
    /\ token_counter < MaxTokens
    /\ LET token_id == token_counter
           emotional_metadata ==
               [valence |-> valence, arousal |-> 50, dominance |-> 50,
                timestamp |-> now, emotional_category |-> "joy"]
       IN  /\ emotional_data' = insert(emotional_data, token_id, emotional_metadata)
           /\ token_counter' = token_counter + 1
           /\ store_log' = Append(store_log, [returned |-> token_id,
                                              stored |-> emotional_metadata])
           /\ last_msg' = [msg |-> "store_emotional_data", caller |-> caller,
                           token_id |-> token_id, arg |-> "joy", result |-> "Ok",
                           event |-> "EmotionalDataStored"]
    /\ UNCHANGED <<bridge_info, total_bridged, nonContractVars>>

\* bridge_token(token_id, target_chain, target_contract) -> Result<(), Error>
bridge_token(caller, token_id, target_chain, now) ==
    /\ IF token_id \notin DOMAIN emotional_data
       THEN /\ last_msg' = [msg |-> "bridge_token", caller |-> caller,
                            token_id |-> token_id, arg |-> target_chain,
                            result |-> "TokenNotFound", event |-> "none"]
            /\ UNCHANGED <<bridge_info, total_bridged>>
       ELSE /\ total_bridged < MaxBridged
            /\ bridge_info' = insert(bridge_info, token_id,
                                     [source_chain |-> "PolkadotRococo",
                                      target_chain |-> target_chain,
                                      bridge_status |-> "pending",
                                      bridge_timestamp |-> now,
                                      emotional_preservation |-> 95,
                                      bridge_complexity |-> 75,
                                      cross_chain_emotional_sync |-> TRUE])
            /\ total_bridged' = total_bridged + 1
            /\ last_msg' = [msg |-> "bridge_token", caller |-> caller,
                            token_id |-> token_id, arg |-> target_chain,
                            result |-> "Ok", event |-> "TokenBridged"]
    /\ UNCHANGED <<emotional_data, token_counter, store_log, nonContractVars>>

\* update_bridge_status(token_id, new_status) -> Result<(), Error>
update_bridge_status(caller, token_id, new_status) ==
    /\ IF caller # owner
       THEN /\ last_msg' = [msg |-> "update_bridge_status", caller |-> caller,
                            token_id |-> token_id, arg |-> new_status,
                            result |-> "NotOwner", event |-> "none"]
            /\ UNCHANGED bridge_info
       ELSE IF token_id \notin DOMAIN bridge_info
       THEN /\ last_msg' = [msg |-> "update_bridge_status", caller |-> caller,
                            token_id |-> token_id, arg |-> new_status,
                            result |-> "BridgeNotFound", event |-> "none"]
            /\ UNCHANGED bridge_info
       ELSE /\ bridge_info' = [bridge_info EXCEPT ![token_id].bridge_status = new_status]
            /\ last_msg' = [msg |-> "update_bridge_status", caller |-> caller,
                            token_id |-> token_id, arg |-> new_status,
                            result |-> "Ok", event |-> "BridgeStatusUpdated"]
    /\ UNCHANGED <<emotional_data, token_counter, total_bridged, store_log,
                   nonContractVars>>

\* get_emotional_data(token_id) -> Option<EmotionalMetadata>
get_emotional_data(token_id) ==
    IF token_id \in DOMAIN emotional_data
    THEN [some |-> TRUE, value |-> emotional_data[token_id]]
    ELSE [some |-> FALSE]

\* get_token_count() -> u64
get_token_count == token_counter

\* get_total_bridged() -> u64
get_total_bridged == total_bridged

NextContract ==
    \/ \E caller \in Accounts, valence \in Valences, now \in BlockTimes :
           store_emotional_data(caller, valence, now)
    \/ \E caller \in Accounts, token_id \in 0 .. MaxTokens, target_chain \in Chains,
          now \in BlockTimes :
           bridge_token(caller, token_id, target_chain, now)
    \/ \E caller \in Accounts, token_id \in 0 .. MaxTokens, new_status \in Statuses :
           update_bridge_status(caller, token_id, new_status)

SpecContract == InitUnlocked /\ [][NextContract]_vars

----------------------------------------------------------------------------
(* The utility functions of polkadot-ai-bridge.ts and the scaling of emotion *)
(* values by 127 in both TypeScript clients.                                 *)

nonUtilVars == <<reputationVars, analyzerVars, callerVars, clientVars, contractVars>>

\* An emotion value x is held as x * EUNIT, so that x * 127 is a whole number of
\* halves and the ties of Math.round occur; a quality score or confidence is
\* held in hundredths.
EUNIT == 254
QUNIT == 100
MaxVector == 7

\* qualityScore = 0.85 and confidence = 0.9 of the parameter list.
DefaultQualityScore == 85
DefaultConfidence == 90

Math_max(a, b) == IF a > b THEN a ELSE b
Math_min(a, b) == IF a < b THEN a ELSE b

\* Math.round of the quotient num / den (den > 0): the nearest integer, a tie
\* going to the larger one.
Math_round(num, den) == (2 * num + den) \div (2 * den)

\* Array.prototype.slice(from, to) with 0 <= from <= to.
slice(array, from, to) == SubSeq(array, from + 1, Math_min(to, Len(array)))

\* The SHA-256 digest of the vector's JSON text, kept as a value that is the
\* same for the same vector only.
createHash(emotionVector) == <<"sha256", emotionVector>>

\* args holds the arguments supplied, by parameter name: emotionVector, then
\* optionally qualityScore and confidence; now is what Date.now() returns.
createBiometricData(args, now) ==
    LET emotionVector == args.emotionVector
        qualityScore  == IF "qualityScore" \in DOMAIN args THEN args.qualityScore
                         ELSE DefaultQualityScore
        confidence    == IF "confidence" \in DOMAIN args THEN args.confidence
                         ELSE DefaultConfidence
    IN  [biometricHash |-> createHash(emotionVector),
         emotionVector |-> slice(emotionVector, 0, 6),
         qualityScore  |-> Math_max(0, Math_min(QUNIT, qualityScore)),
         confidence    |-> Math_max(0, Math_min(QUNIT, confidence)),
         timestamp     |-> now]

validateCrossChainTransfer(transfer) ==
    IF transfer.transferId = "" \/ Len(transfer.transferId) < 10 THEN FALSE
    ELSE IF transfer.biometricData.qualityScore < 50 THEN FALSE
    ELSE IF transfer.emotionAnalysis.confidence < 30 THEN FALSE
    ELSE IF Len(transfer.biometricData.emotionVector) # 6 THEN FALSE
    ELSE TRUE

\* emotionVector[i] || 0.5, i counted from 0 as in the source: the component,
\* or 0.5 when it is undefined or 0.
or_default(emotionVector, i) ==
    IF i < Len(emotionVector) /\ emotionVector[i + 1] # 0
    THEN emotionVector[i + 1]
    ELSE EUNIT \div 2

\* The emotionAnalysis of the transfer record and the emotionDataScaled sent to
\* the contract by initiateCrossChainTransfer.
emotionAnalysis_of(emotionVector) ==
    [emotionVector |-> emotionVector,
     valence   |-> or_default(emotionVector, 0),
     arousal   |-> or_default(emotionVector, 1),
     dominance |-> or_default(emotionVector, 2)]

emotionDataScaled_of(emotionVector) ==
    [valence   |-> Math_round(or_default(emotionVector, 0) * 127, EUNIT),
     arousal   |-> Math_round(or_default(emotionVector, 1) * 127, EUNIT),
     dominance |-> Math_round(or_default(emotionVector, 2) * 127, EUNIT)]

\* PolkadotSoulboundClient.createIdentity: the emotion data it sends.
createIdentity_scaled(emotionData) ==
    [valence   |-> Math_round(emotionData.valence * 127, EUNIT),
     arousal   |-> Math_round(emotionData.arousal * 127, EUNIT),
     dominance |-> Math_round(emotionData.dominance * 127, EUNIT)]

\* PolkadotSoulboundClient.getIdentity: the emotion data it returns for the
\* stored integers, x / 127 held as x * EUNIT / 127.
getIdentity_emotion(stored) ==
    [valence   |-> (stored.valence * EUNIT) \div 127,
     arousal   |-> (stored.arousal * EUNIT) \div 127,
     dominance |-> (stored.dominance * EUNIT) \div 127]

Vectors(values, n) == UNION {[1 .. k -> values] : k \in 0 .. n}
\* One vector of each length up to MaxVector, its components all different.
BiometricVectors == {[i \in 1 .. k |-> 30 * i] : k \in 0 .. MaxVector}
BiometricScores == {-10, 50, 120}
BiometricArgs ==
    [emotionVector : BiometricVectors]
        \cup [emotionVector : BiometricVectors, qualityScore : BiometricScores]
        \cup [emotionVector : BiometricVectors, qualityScore : BiometricScores,
              confidence : BiometricScores]
TransferIdStrings == {"", "transfer_", "transfer_1", "transfer_1730000000000_k3j9x2m1q"}
Transfers ==
    [transferId : TransferIdStrings,
     biometricData : [qualityScore : {49, 50, 85},
                      emotionVector : {[i \in 1 .. k |-> 127] : k \in {0, 5, 6, 7}}],
     emotionAnalysis : [confidence : {29, 30, 90}]]
EmotionVectors == Vectors({-EUNIT, 0, 1, 127}, 3)
\* Every value of [-1,1] on the grid, on each of the three axes.
EmotionValues == (-EUNIT) .. EUNIT
EmotionDatas ==
    {[valence |-> x, arousal |-> -x, dominance |-> EUNIT - Abs(x)] : x \in EmotionValues}

call_createBiometricData ==
    /\ \E args \in BiometricArgs, now \in Timestamps :
           util' = [fn |-> "createBiometricData", arg |-> args,
                    result |-> createBiometricData(args, now)]
    /\ UNCHANGED nonUtilVars

call_validateCrossChainTransfer ==
    /\ \E transfer \in Transfers :
           util' = [fn |-> "validateCrossChainTransfer", arg |-> transfer,
                    result |-> [valid |-> validateCrossChainTransfer(transfer)]]
    /\ UNCHANGED nonUtilVars

\* Steps 3 and 4 of initiateCrossChainTransfer for one emotion vector; the
\* registration of the transfer itself is the action operate.
scale_transfer_emotion ==
    /\ \E emotionVector \in EmotionVectors :
           util' = [fn |-> "initiateCrossChainTransfer", arg |-> [emotionVector |-> emotionVector],
                    result |-> [emotionAnalysis |-> emotionAnalysis_of(emotionVector),
                                emotionDataScaled |-> emotionDataScaled_of(emotionVector)]]
    /\ UNCHANGED nonUtilVars

call_createIdentity ==
    /\ \E emotionData \in EmotionDatas :
           util' = [fn |-> "createIdentity", arg |-> emotionData,
                    result |-> createIdentity_scaled(emotionData)]
    /\ UNCHANGED nonUtilVars

\* getIdentity of the identity the latest createIdentity created: arg keeps what
\* was given to createIdentity and what the contract stored.
call_getIdentity ==
    /\ util.fn = "createIdentity"
    /\ util' = [fn |-> "getIdentity",
                arg |-> [emotionData |-> util.arg, stored |-> util.result],
                result |-> getIdentity_emotion(util.result)]
    /\ UNCHANGED nonUtilVars

NextUtil ==
    \/ call_createBiometricData
    \/ call_validateCrossChainTransfer
    \/ scale_transfer_emotion
    \/ call_createIdentity
    \/ call_getIdentity

SpecUtil == InitUnlocked /\ [][NextUtil]_vars

TypeOK ==
    /\ calls \in 0 .. MaxCalls
    /\ token.verification_level \in VerificationLevels
    /\ token.last_updated \in Timestamps
    /\ DOMAIN token.category_scores \subseteq Categories

----------------------------------------------------------------------------
(* The latest call, as the claims speak of it. *)

Called == calls > 0
Activity == last_call.activity
Now == last_call.now
OldScores == prev_token.category_scores
NewScores == token.category_scores
Elapsed == Now - prev_token.last_updated
\* The decay the latest call computed, scaled by DSCALE.
Decay == calculate_exponential_decay(prev_token.last_updated, Now, DECAY_HALF_LIFE)
InRange(activity) == \A k \in DOMAIN activity : activity[k] >= 0 /\ activity[k] <= ONE

\* C1: after update_reputation, every category k of the activity is in the map and
\* holds clamp(current * decay + activity[k] * (1 - decay), 0, 1), current being
\* the value stored before the call, or 0.5 when k was not in the map.
C1_BlendPerCategory ==
    Called =>
        \A k \in DOMAIN Activity :
            LET current == IF k \in DOMAIN OldScores THEN OldScores[k] ELSE HALF
                blend   == current * Decay + Activity[k] * (DSCALE - Decay)
            IN  /\ k \in DOMAIN NewScores
                /\ NewScores[k] * DSCALE =
                       (IF blend < 0 THEN 0
                        ELSE IF blend > ONE * DSCALE THEN ONE * DSCALE ELSE blend)

\* A call after a positive elapsed time that overwrote one category with a new
\* value and inserted another one.
C1_Witness ==
    /\ Called /\ Elapsed > 0 /\ InRange(Activity)
    /\ \E k \in DOMAIN Activity \cap DOMAIN OldScores : NewScores[k] # OldScores[k]
    /\ \E j \in DOMAIN Activity \ DOMAIN OldScores : NewScores[j] # HALF

\* C2: in every reachable state overall_score is
\* clamp(base_score(category_scores) * multiplier(verification_level), 0, 1), the
\* multipliers being Basic 0.8, Verified 1.0, Enhanced 1.2, Premium 1.5.
C2_OverallIsDerived ==
    LET base    == calculate_weighted_score(token.category_scores)
        product == IF token.verification_level = "Basic" THEN base * 8
                   ELSE IF token.verification_level = "Verified" THEN base * 10
                   ELSE IF token.verification_level = "Enhanced" THEN base * 12
                   ELSE base * 15
    IN  token.overall_score = (IF product > OONE THEN OONE ELSE product)

\* After two calls, a state whose overall_score is neither 0 nor 1 and differs
\* from the one before the latest call.
C2_Witness ==
    /\ calls = MaxCalls
    /\ token.overall_score > 0 /\ token.overall_score < OONE
    /\ token.overall_score # prev_token.overall_score
    /\ token.verification_level = "Enhanced"

\* C3: in every reachable state every category score and overall_score lie in
\* [0,1], whatever the verification level.
C3_ScoresInUnitInterval ==
    /\ \A k \in DOMAIN token.category_scores :
           token.category_scores[k] >= 0 /\ token.category_scores[k] <= ONE
    /\ token.overall_score >= 0 /\ token.overall_score <= OONE

\* A Premium token, reached by in-range activities only, whose base_score times
\* 1.5 exceeds 1 and whose overall_score is 1.
C3_Witness ==
    /\ Called /\ InRange(Activity) /\ Elapsed > 0
    /\ token.verification_level = "Premium"
    /\ calculate_weighted_score(token.category_scores) * 15 > OONE
    /\ token.overall_score = OONE

C6_InvalidRangeRejected ==
    (Called /\ ~InRange(Activity))
        => (last_call.result = "InvalidRange" /\ token = prev_token)

\* C7: a call with now < last_updated fails with NonMonotonicTime and leaves the
\* state unchanged, so last_updated never decreases.
C7_NonMonotonicTimeRejected ==
    /\ (Called /\ Now < prev_token.last_updated)
           => (last_call.result = "NonMonotonicTime" /\ token = prev_token)
    /\ Called => token.last_updated >= prev_token.last_updated

\* C8: a call whose activity is empty fails with EmptyActivity and does not
\* advance last_updated; last_updated changes only in a call that blends at least
\* one category.
C8_EmptyActivityRejected ==
    /\ (Called /\ DOMAIN Activity = {})
           => (last_call.result = "EmptyActivity"
               /\ token.last_updated = prev_token.last_updated)
    /\ (Called /\ token.last_updated # prev_token.last_updated)
           => DOMAIN Activity # {}

\* C9: a successful call leaves every category that is in the old map but not in
\* the activity at its old value, leaves verification_level unchanged and sets
\* last_updated to now.
C9_FrameOfUpdate ==
    (Called /\ last_call.result = "Ok") =>
        /\ \A k \in DOMAIN OldScores \ DOMAIN Activity :
               k \in DOMAIN NewScores /\ NewScores[k] = OldScores[k]
        /\ token.verification_level = prev_token.verification_level
        /\ token.last_updated = Now

\* A successful call after a positive elapsed time that blended one category and
\* left another one, holding a value above 0, in the map.
C9_Witness ==
    /\ Called /\ last_call.result = "Ok" /\ Elapsed > 0
    /\ DOMAIN Activity # {} /\ InRange(Activity)
    /\ \E k \in DOMAIN OldScores \ DOMAIN Activity : OldScores[k] > 0
    /\ token.last_updated = Now /\ token.last_updated # prev_token.last_updated

----------------------------------------------------------------------------
(* The analyzer's result, as the claims speak of it. *)

\* The latest two calls carried the same activity and both found elapsed = 0.
SameActivityTwiceAtOnce ==
    /\ calls = 2
    /\ last_call.activity = prev_call.activity
    /\ Elapsed = 0
    /\ prev_call.now = new_token("Basic").last_updated

\* C13: with elapsed = 0 (decay = 1) update_reputation leaves every category that
\* was in the map as it was, whatever score the activity carries for it, and
\* applying the same activity a second time with elapsed = 0 leaves the category
\* values as the first application left them.
C13_ZeroElapsedIsNoOp ==
    /\ (Called /\ Elapsed = 0) =>
           /\ Decay = DSCALE
           /\ \A k \in DOMAIN OldScores : NewScores[k] = OldScores[k]
    /\ SameActivityTwiceAtOnce => NewScores = OldScores

\* The same activity applied twice at time 0, its score 1.0 differing from the
\* 0.5 the first application stored.
C13_Witness ==
    /\ SameActivityTwiceAtOnce
    /\ \E k \in DOMAIN Activity :
           /\ k \in DOMAIN OldScores
           /\ Activity[k] = ONE /\ OldScores[k] = HALF /\ NewScores[k] = HALF

\* The score of category k had the latest call come at time now instead.
ScoreAt(k, now) == updated_token(prev_token, Activity, now).category_scores[k]
Between(x, a, b) == (a <= x /\ x <= b) \/ (b <= x /\ x <= a)

\* C14: for the same prior state and the same activity, a call with a larger
\* elapsed time (not negative) leaves a category score at least as close to the
\* activity's score and at least as far from the prior value, and the updated
\* score lies between the prior value and the activity's score.
C14_DecayMonotone ==
    (Called /\ Elapsed >= 0) =>
        \A k \in DOMAIN Activity :
            LET prior == get_or(OldScores, k, HALF)
            IN  /\ Between(NewScores[k], prior, Activity[k])
                /\ \A later \in Timestamps :
                       later > Now =>
                           /\ Abs(ScoreAt(k, later) - Activity[k])
                                  <= Abs(NewScores[k] - Activity[k])
                           /\ Abs(ScoreAt(k, later) - prior)
                                  >= Abs(NewScores[k] - prior)

\* A call one half-life after the last update moved a stored score strictly
\* between the prior value and the activity's score, and a later call would
\* have moved it strictly further.
C14_Witness ==
    /\ Called /\ Elapsed = 1 /\ Now < MaxTime
    /\ \E k \in DOMAIN Activity :
           /\ k \in DOMAIN OldScores
           /\ OldScores[k] < NewScores[k] /\ NewScores[k] < Activity[k]
           /\ ScoreAt(k, Now + 1) > NewScores[k]

Analyzed == trend # "none"
\* The entries the analyzer compares and their differences.
Oldest == history[1]
Newest == history[Min(5, Len(history))]
ValenceDiff == Newest.valence - Oldest.valence
ArousalDiff == Newest.arousal - Oldest.arousal

\* C10: for a history of at least two entries the result is Stable if both
\* |valence_diff| and |arousal_diff| are below 0.1; else Volatile if one of them
\* is above 0.3; else Ascending if valence_diff or arousal_diff is above 0.1; else
\* Descending if one of them is below -0.1; else Stable.  Differences 0.05/0.02
\* give Stable, 0.4/0 Volatile, 0.15/0 Ascending.
C10_RulesInOrder ==
    (Analyzed /\ Len(history) >= 2) =>
        LET vd == ValenceDiff
            ad == ArousalDiff
            rule1 == (vd > -10 /\ vd < 10) /\ (ad > -10 /\ ad < 10)
            rule2 == (vd > 30 \/ vd < -30) \/ (ad > 30 \/ ad < -30)
            rule3 == vd > 10 \/ ad > 10
            rule4 == vd < -10 \/ ad < -10
        IN  /\ rule1 => trend = "Stable"
            /\ (~rule1 /\ rule2) => trend = "Volatile"
            /\ (~rule1 /\ ~rule2 /\ rule3) => trend = "Ascending"
            /\ (~rule1 /\ ~rule2 /\ ~rule3 /\ rule4) => trend = "Descending"
            /\ (~rule1 /\ ~rule2 /\ ~rule3 /\ ~rule4) => trend = "Stable"
            /\ (vd = 5 /\ ad = 2) => trend = "Stable"
            /\ (vd = 40 /\ ad = 0) => trend = "Volatile"
            /\ (vd = 15 /\ ad = 0) => trend = "Ascending"

\* A history whose valence rose by 0.2 while its arousal fell by 0.2: rules 3 and
\* 4 both apply and the earlier one, Ascending, is the result.
C10_Witness ==
    /\ Analyzed /\ Len(history) >= 2
    /\ ValenceDiff = 20 /\ ArousalDiff = -20
    /\ trend = "Ascending"

\* The window the specification describes: the last min(5, len) entries.
LastWindow == SubSeq(history, Len(history) - Min(5, Len(history)) + 1, Len(history))

\* C11: the analyzer compares the first and the last entry of the most recent
\* window, the last min(5, len) entries of the history, so that for len > 5 no
\* entry before the last five affects the result.
C11_LastFiveWindow ==
    (Analyzed /\ Len(history) >= 2) =>
        LET oldest == LastWindow[1]
            newest == history[Len(history)]
        IN  trend = classify_diffs(newest.valence - oldest.valence,
                                   newest.arousal - oldest.arousal)

\* C12: for a history of fewer than two entries the trend is Stable and the
\* complexity is 0.0.
C12_ShortHistoryDefaults ==
    Len(history) < 2 =>
        /\ Analyzed => trend = "Stable"
        /\ complexity # -1 => complexity = 0

\* A single observation away from the origin, analyzed and measured.
C12_Witness ==
    /\ Len(history) = 1
    /\ history[1].valence # 0 /\ history[1].arousal # 0
    /\ trend = "Stable" /\ complexity = 0

\* Both differences lie in [-0.1, 0.1] and one of them is 0.1 or -0.1.
OnBoundary ==
    /\ ValenceDiff >= -10 /\ ValenceDiff <= 10
    /\ ArousalDiff >= -10 /\ ArousalDiff <= 10
    /\ (ValenceDiff = 10 \/ ValenceDiff = -10 \/ ArousalDiff = 10 \/ ArousalDiff = -10)

\* C18: the result is Stable although rule 1 does not apply (the final fallback)
\* exactly when the differences lie on the threshold 0.1: both within [-0.1, 0.1]
\* and one of them equal to 0.1 or -0.1.
C18_FallbackOnlyOnBoundary ==
    (Analyzed /\ Len(history) >= 2) =>
        LET rule1 == (ValenceDiff > -10 /\ ValenceDiff < 10)
                     /\ (ArousalDiff > -10 /\ ArousalDiff < 10)
        IN  (trend = "Stable" /\ ~rule1) <=> OnBoundary

\* Valence rose by exactly 0.1 while arousal fell by exactly 0.1: the fallback.
C18_Witness ==
    /\ Analyzed /\ Len(history) >= 2
    /\ ValenceDiff = 10 /\ ArousalDiff = -10
    /\ trend = "Stable"

----------------------------------------------------------------------------
(* The concurrent callers, as the claims speak of them. *)

AllDone == \A c \in Callers : pc[c] = "done"
\* The token two calls leave when the call of first runs whole before the call of
\* second, each at the time it read from the clock.
SerialOutcome(first, second) ==
    updated_token(updated_token(new_token(token.verification_level),
                                local[first].activity, local[first].current_time),
                  local[second].activity, local[second].current_time)

\* C5: when every call holds the token's exclusive lock for its whole duration,
\* no two calls are inside the body at once, and the state concurrent calls end in
\* is the state of running them one after another in some order.
C5_LockedCallsSerialize ==
    /\ \A c \in Callers, d \in Callers : (c # d) => ~(InBody(c) /\ InBody(d))
    /\ \A c \in Callers : InBody(c) => lock = c
    /\ AllDone => \E c \in Callers, d \in Callers :
                      c # d /\ token = SerialOutcome(c, d)

\* Both calls are done, one of them was invoked while the other was inside the
\* body, both blended the same category after a positive elapsed time, and the
\* other serial order would have ended in another state.
C5_Witness ==
    /\ AllDone
    /\ \E c \in Callers : local[c].contended
    /\ \E k \in CallerCategories : \A c \in Callers : k \in DOMAIN local[c].activity
    /\ \A c \in Callers : local[c].time_decay < DSCALE
    /\ \E c \in Callers, d \in Callers :
           c # d /\ token = SerialOutcome(c, d) /\ token # SerialOutcome(d, c)
\* The token both calls named, as it was created, and the state the two calls
\* leave when the call of first runs whole before the call of second.
SameToken == \A c \in Callers : local[c].token_id = local["c1"].token_id
SerialOutcomeOn(token_id, first, second) ==
    updated_token(updated_token(new_token(TokenOf(token_id).verification_level),
                                local[first].activity, local[first].current_time),
                  local[second].activity, local[second].current_time)
Serializable ==
    \E c \in Callers, d \in Callers :
        c # d /\ TokenOf(local["c1"].token_id) = SerialOutcomeOn(local["c1"].token_id, c, d)

C16_LockAlwaysReleased ==
    /\ [](\A c \in Callers : pc[c] = "done" => lock # c)
    /\ \A c \in Callers : (pc[c] = "waiting") ~> (pc[c] = "done")

\* One call failed with the lookup error while the other, invoked when access
\* was taken, waited, then ran and returned Ok; access is free again.
C16_Witness ==
    /\ AllDone /\ lock = "free"
    /\ \E c \in Callers, d \in Callers :
           /\ local[c].result = "TokenNotFound"
           /\ local[d].result = "Ok" /\ local[d].contended
           /\ token.category_scores # EmptyMap

\* The token a call alone leaves of the token of token_id as it was created.
AloneOutcome(c) ==
    updated_token(new_token(TokenOf(local[c].token_id).verification_level),
                  local[c].activity, local[c].current_time)

\* C17: a call on one token neither reads nor writes the other token: while
\* calls on different tokens interleave, a token whose call has not yet written
\* is as it was created whatever the other call has done, and when both are done
\* each token is in the state its own call alone would have left it in.
C17_IdentitiesIndependent ==
    ~SameToken =>
        \A c \in Callers :
            /\ pc[c] \in {"waiting", "decay", "read"} /\ local[c].category = "none"
                   => TokenOf(local[c].token_id)
                          = new_token(TokenOf(local[c].token_id).verification_level)
            /\ pc[c] = "done" => TokenOf(local[c].token_id) = AloneOutcome(c)

\* Calls on the two tokens overlapped, each blended the same category with a
\* different score, and the tokens ended in different states.
C17_Witness ==
    /\ AllDone /\ ~SameToken
    /\ \E c \in Callers : local[c].contended
    /\ \E k \in CallerCategories :
           /\ \A c \in Callers : k \in DOMAIN local[c].activity
                                 /\ local[c].time_decay < DSCALE
           /\ token.category_scores[k] # other_token.category_scores[k]

\* C19: a chain operation invoked while no connect() has succeeded since
\* construction or since the last disconnect() fails with the not-initialized
\* error, makes no contract call and leaves activeTransfers and bridgeState as
\* they were; disconnect() leaves api and contract null.
C19_GuardBeforeConnect ==
    /\ (last_op.op \in BridgeOps \cup SoulboundOps /\ ~last_op.ready)
           => (last_op.result = "NotInitialized" /\ ~last_op.changed)
    /\ last_op.op = "disconnect" => last_op.result = "Reset"

\* C20: token ids are handed out sequentially from 0: the i-th call of
\* store_emotional_data returns i - 1, the counter before it, get_token_count is
\* the number of such calls, emotional data exists exactly for the ids below
\* token_counter, and get_emotional_data of a returned id gives what that call
\* stored.
C20_SequentialTokenIds ==
    /\ get_token_count = Len(store_log)
    /\ DOMAIN emotional_data = 0 .. token_counter - 1
    /\ \A token_id \in 0 .. MaxTokens + 1 :
           get_emotional_data(token_id).some <=> token_id < token_counter
    /\ \A i \in 1 .. Len(store_log) :
           /\ store_log[i].returned = i - 1
           /\ get_emotional_data(store_log[i].returned)
                  = [some |-> TRUE, value |-> store_log[i].stored]

\* Three calls stored different values under the ids 0, 1 and 2, and a token
\* was bridged in between.
C20_Witness ==
    /\ Len(store_log) = 3 /\ token_counter = 3
    /\ store_log[3].returned = 2
    /\ emotional_data[0].valence # emotional_data[1].valence
    /\ emotional_data[1].timestamp # emotional_data[2].timestamp
    /\ total_bridged > 0

\* C21: get_total_bridged is the number of token ids that have bridge info,
\* and the bridge info of a token just bridged carries the given target chain,
\* the status 'pending' and emotional_preservation 95.
C21_TotalBridgedCountsTokens ==
    /\ get_total_bridged = Cardinality(DOMAIN bridge_info)
    /\ (last_msg.msg = "bridge_token" /\ last_msg.result = "Ok") =>
           /\ last_msg.token_id \in DOMAIN bridge_info
           /\ bridge_info[last_msg.token_id].target_chain = last_msg.arg
           /\ bridge_info[last_msg.token_id].bridge_status = "pending"
           /\ bridge_info[last_msg.token_id].emotional_preservation = 95

\* The messages that failed.
Errors == {"TokenNotFound", "NotOwner", "BridgeNotFound"}

\* C23: a failed message changes nothing and emits no event: bridge_token without
\* emotional data returns TokenNotFound, update_bridge_status by another caller
\* than the owner returns NotOwner and on a token without bridge info
\* BridgeNotFound; and a stored bridge_status is changed by the owner only.
C23_FailedMessageChangesNothing ==
    [][/\ last_msg'.result \in Errors =>
              /\ UNCHANGED <<emotional_data, bridge_info, token_counter, total_bridged>>
              /\ last_msg'.event = "none"
       /\ (last_msg'.msg = "bridge_token"
           /\ last_msg'.token_id \notin DOMAIN emotional_data)
              => last_msg'.result = "TokenNotFound"
       /\ (last_msg'.msg = "update_bridge_status" /\ last_msg'.caller # owner)
              => last_msg'.result = "NotOwner"
       /\ (last_msg'.msg = "update_bridge_status" /\ last_msg'.caller = owner
           /\ last_msg'.token_id \notin DOMAIN bridge_info)
              => last_msg'.result = "BridgeNotFound"
       /\ \A token_id \in DOMAIN bridge_info :
              bridge_info'[token_id].bridge_status # bridge_info[token_id].bridge_status
                  => last_msg'.caller = owner
      ]_vars

\* C22: no transfer id is in activeTransfers and in bridgeState at once, and
\* every transfer in activeTransfers has status 'processing'; a transfer is put
\* there as 'processing', a result in a block makes it 'completed', stored in
\* bridgeState and gone from activeTransfers, and a result with a dispatch error
\* makes it 'failed' and gone from activeTransfers.
C22_ActiveOrStoredNeverBoth ==
    /\ DOMAIN activeTransfers \cap DOMAIN bridgeState = {}
    /\ \A x \in DOMAIN activeTransfers : activeTransfers[x] = "processing"
    /\ \A x \in DOMAIN transfers :
           /\ transfers[x].callbacks = 0 =>
                  (x \in DOMAIN activeTransfers /\ transfers[x].status = "processing")
           /\ transfers[x].last_result \in {"inBlock", "inBlock, dispatchError"} =>
                  /\ transfers[x].status = "completed"
                  /\ x \in DOMAIN bridgeState /\ x \notin DOMAIN activeTransfers
           /\ transfers[x].last_result \in {"dispatchError", "inBlock, dispatchError"} =>
                  (transfers[x].status = "failed" /\ x \notin DOMAIN activeTransfers)

\* C25: a transfer is 'completed', stored in bridgeState and its call resolved
\* only if no result of its transaction carried a dispatch error, and a transfer
\* stored in bridgeState as 'completed' keeps that status.
C25_CompletedOnlyWithoutError ==
    \A x \in DOMAIN transfers :
        /\ (transfers[x].status = "completed" \/ transfers[x].outcome = "resolved"
            \/ x \in DOMAIN bridgeState) => ~transfers[x].error_seen
        /\ x \in DOMAIN bridgeState => bridgeState[x] = "completed"

\* C26: once the call of initiateCrossChainTransfer has settled, resolved or
\* rejected, its transfer is no longer in activeTransfers.
C26_SettledTransferNotActive ==
    \A x \in DOMAIN transfers :
        transfers[x].outcome # "pending" => x \notin DOMAIN activeTransfers

\* The transfers whose status ended as st.
Ended(st) == {x \in DOMAIN transfers : transfers[x].status = st}

\* C27: getBridgeStatistics reports as failedTransfers and completedTransfers the
\* numbers of transfers that ended 'failed' and 'completed', as totalTransfers
\* their sum, and as successRate 100 * completedTransfers / totalTransfers, 0
\* when there are none.
C27_StatisticsCountOutcomes ==
    LET stats == getBridgeStatistics
    IN  /\ stats.failedTransfers = Cardinality(Ended("failed"))
        /\ stats.completedTransfers = Cardinality(Ended("completed"))
        /\ stats.totalTransfers = stats.failedTransfers + stats.completedTransfers
        /\ IF stats.totalTransfers = 0 THEN stats.successRate.num = 0
           ELSE stats.successRate.num * stats.totalTransfers
                    = 100 * stats.completedTransfers * stats.successRate.den

\* C24: createBiometricData returns, for every input vector, an emotionVector
\* of exactly 6 components and a qualityScore and confidence within [0,1];
\* validateCrossChainTransfer returns true exactly when transferId has at least
\* 10 characters, qualityScore >= 0.5, emotionAnalysis.confidence >= 0.3 and the
\* emotionVector has length 6.
C24_BiometricDataWellFormed ==
    /\ util.fn = "createBiometricData" =>
           /\ Len(util.result.emotionVector) = 6
           /\ util.result.qualityScore \in 0 .. QUNIT
           /\ util.result.confidence \in 0 .. QUNIT
    /\ util.fn = "validateCrossChainTransfer" =>
           (util.result.valid <=>
                /\ Len(util.arg.transferId) >= 10
                /\ util.arg.biometricData.qualityScore >= 50
                /\ util.arg.emotionAnalysis.confidence >= 30
                /\ Len(util.arg.biometricData.emotionVector) = 6)

\* C30: initiateCrossChainTransfer records each of the first three components
\* of the emotion vector that is present unchanged and sends round(component *
\* 127), using 0.5 (sent as 64) only for a missing component; createIdentity
\* sends integers in [-127,127] for values in [-1,1] and getIdentity returns
\* each value to within 1/254 of the original.
C30_EmotionScaledBy127 ==
    /\ util.fn = "initiateCrossChainTransfer" =>
           LET recorded == <<util.result.emotionAnalysis.valence,
                             util.result.emotionAnalysis.arousal,
                             util.result.emotionAnalysis.dominance>>
               sent     == <<util.result.emotionDataScaled.valence,
                             util.result.emotionDataScaled.arousal,
                             util.result.emotionDataScaled.dominance>>
               emotionVector == util.arg.emotionVector
           IN  \A i \in 1 .. 3 :
                   IF i <= Len(emotionVector)
                   THEN /\ recorded[i] = emotionVector[i]
                        /\ sent[i] = Math_round(emotionVector[i] * 127, EUNIT)
                   ELSE /\ recorded[i] = EUNIT \div 2
                        /\ sent[i] = 64
    /\ util.fn = "getIdentity" =>
           \A axis \in {"valence", "arousal", "dominance"} :
               /\ util.arg.stored[axis] \in -127 .. 127
               /\ Abs(util.result[axis] - util.arg.emotionData[axis]) <= 1

\* The token before the call before the latest, and the elapsed times of the two
\* calls.
FirstToken == prev_call.before
Elapsed1 == prev_call.now - FirstToken.last_updated
Elapsed2 == last_call.now - prev_call.now
\* Category k got the same in-range score x in both calls.
SameScoreTwice(k) ==
    /\ k \in DOMAIN prev_call.activity \cap DOMAIN last_call.activity
    /\ prev_call.activity[k] = last_call.activity[k]
    /\ last_call.activity[k] >= 0 /\ last_call.activity[k] <= ONE

\* C28: after two calls that give category k the same in-range score x, the
\* first after elapsed e1 and the second after a further e2, k holds what one
\* blend of x after e1 + e2 gives: current * decay(e1 + e2) + x * (1 - decay(e1 +
\* e2)), current being the value before the first call or 0.5 for a never-seen
\* category, and decay(e1 + e2) = decay(e1) * decay(e2).
C28_BlendsCompose ==
    (calls = 2 /\ Elapsed1 >= 0 /\ Elapsed2 >= 0) =>
        LET decay1  == Pow2(MaxTime - Elapsed1)
            decay2  == Pow2(MaxTime - Elapsed2)
            decay12 == Pow2(MaxTime - (Elapsed1 + Elapsed2))
        IN  /\ decay12 * DSCALE = decay1 * decay2
            /\ \A k \in Categories :
                   SameScoreTwice(k) =>
                       LET current == IF k \in DOMAIN FirstToken.category_scores
                                      THEN FirstToken.category_scores[k] ELSE HALF
                       IN  token.category_scores[k] * DSCALE =
                               current * decay12 + last_call.activity[k] * (DSCALE - decay12)

\* Two calls one half-life apart each, both giving the same scores to a category
\* the token held already and to one it had never seen, and both blends moved
\* the stored value.
C28_Witness ==
    /\ calls = 2 /\ Elapsed1 > 0 /\ Elapsed2 > 0
    /\ \E k1 \in DOMAIN FirstToken.category_scores :
           /\ SameScoreTwice(k1)
           /\ prev_token.category_scores[k1] # FirstToken.category_scores[k1]
           /\ token.category_scores[k1] # prev_token.category_scores[k1]
    /\ \E k2 \in Categories \ DOMAIN FirstToken.category_scores :
           /\ SameScoreTwice(k2)
           /\ token.category_scores[k2] # prev_token.category_scores[k2]

\* One difference is positive and the other negative, and both magnitudes lie in
\* (0.1, 0.3].
OppositeInBand ==
    /\ (ValenceDiff > 0 /\ ArousalDiff < 0) \/ (ValenceDiff < 0 /\ ArousalDiff > 0)
    /\ Abs(ValenceDiff) > STABLE_BELOW /\ Abs(ValenceDiff) <= VOLATILE_ABOVE
    /\ Abs(ArousalDiff) > STABLE_BELOW /\ Abs(ArousalDiff) <= VOLATILE_ABOVE

\* C29: when the two differences have opposite signs and both magnitudes lie in
\* (0.1, 0.3] the result is Ascending, neither Descending nor Stable; and the
\* result is Descending only when neither difference exceeds 0.1.
C29_OppositeSignsAscend ==
    (Analyzed /\ Len(history) >= 2) =>
        /\ OppositeInBand => trend = "Ascending"
        /\ trend = "Descending" =>
               (ValenceDiff <= STABLE_BELOW /\ ArousalDiff <= STABLE_BELOW)

\* A history whose valence fell by 0.15 while its arousal rose by 0.3, the upper
\* end of the band: the result is Ascending.
C29_Witness ==
    /\ Analyzed /\ Len(history) >= 2
    /\ OppositeInBand
    /\ ValenceDiff = -15 /\ ArousalDiff = VOLATILE_ABOVE
    /\ trend = "Ascending"
====
